---- MODULE Spec2Model ----
(***************************************************************************)
(* A model of the stock-ticker demo: the record generator                  *)
(* (utils/mockData.ts), the periodic price mutator and list of the         *)
(* top-level view (App), the row view (components/StockItem.tsx) and the   *)
(* rendering of the frame-rate indicator (components/FPSCounter.tsx).      *)
(*                                                                         *)
(* Numbers.  Math.random() is k / RandomSteps for an integer k in          *)
(* 0 .. RandomSteps-1, and every amount of money is an integer number of   *)
(* units of 1/RandomSteps dollar, so that the products and sums of the     *)
(* source are exact: 10.00 dollars is 100000 units, a cent is 100 units.   *)
(* Binary floating point is not modelled; where a result of the source     *)
(* depends on it (a decimal tie in toFixed) the comment says so.           *)
(***************************************************************************)
EXTENDS Integers, Sequences, FiniteSets, TLC

VARIABLES
    phase,      \* "module": generateMockData is running; "mounted": App is mounted
    stocks,     \* App's state `stocks` (while phase = "module": the generator's array)
    ticks,      \* number of timer callbacks run so far (bounds the model only)
    rows,       \* the mounted StockItem instances, by React key
    hist,       \* per key: the flag values before the last toggles, and the value last set
    output,     \* the last alert() or console.log() message
    fps,        \* FPSCounter's state `fps`
    fpsView,    \* what FPSCounter's last render shows
    timer,      \* App's interval: "none" before the effect runs, "active", "cleared"
    frame       \* FPSCounter's refs, the clock and the frame requests not yet run

vars == <<phase, stocks, ticks, rows, hist, output, fps, fpsView, timer, frame>>

-----------------------------------------------------------------------------
(* Bounds of the model *)

LIST_ITEM_COUNT == 2
MaxTicks == 4
MaxUiTicks == 2
MaxFps == 60
MaxTime == 3000

-----------------------------------------------------------------------------
(* Arithmetic of the source *)

RandomSteps == 10000

Dollars(n) == n * RandomSteps

CentUnits == RandomSteps \div 100

Max(a, b) == IF a >= b THEN a ELSE b

Min(a, b) == IF a <= b THEN a ELSE b

Abs(a) == IF a < 0 THEN -a ELSE a

\* Math.round(x * 100) / 100: the nearest cent, a half rounding up
Round2(x) == ((x + CentUnits \div 2) \div CentUnits) * CentUnits

\* Math.floor(Math.random() * n), for the draw k
RandomInt(k, n) == (k * (n \div RandomSteps))

-----------------------------------------------------------------------------
(* Strings *)

LowerLetters == "abcdefghijklmnopqrstuvwxyz"
UpperLetters == "ABCDEFGHIJKLMNOPQRSTUVWXYZ"

CharAt(s, j) == SubSeq(s, j, j)

UpperChar(c) ==
    IF \E j \in 1..26 : CharAt(LowerLetters, j) = c
    THEN CharAt(UpperLetters, CHOOSE j \in 1..26 : CharAt(LowerLetters, j) = c)
    ELSE c

RECURSIVE ToUpperCase(_)
ToUpperCase(s) ==
    IF Len(s) = 0 THEN ""
    ELSE UpperChar(CharAt(s, 1)) \o ToUpperCase(SubSeq(s, 2, Len(s)))

\* s.substring(0, n)
Substring0(s, n) == SubSeq(s, 1, Min(n, Len(s)))

\* a natural number as decimal digits
RECURSIVE NatString(_)
NatString(n) ==
    IF n < 10 THEN CharAt("0123456789", n + 1)
    ELSE NatString(n \div 10) \o CharAt("0123456789", (n % 10) + 1)

TwoDigits(n) == CharAt("0123456789", (n \div 10) + 1) \o CharAt("0123456789", (n % 10) + 1)

ThreeDigits(n) == CharAt("0123456789", (n \div 100) + 1) \o TwoDigits(n % 100)

\* Number.prototype.toFixed(2) of the rational num / den (den > 0): the sign is
\* taken off first, the magnitude is rounded to the nearest hundredth (a tie
\* to the larger one) and the sign is put back, also in front of 0.00.
\* (An exact decimal tie of num/den is read by the source from the nearest
\* double, which may lie on either side of it.)
RoundDiv(a, b) == (a \div b) + (IF 2 * (a % b) >= b THEN 1 ELSE 0)

Hundredths(num, den) ==
    IF den % 100 = 0 THEN RoundDiv(Abs(num), den \div 100)
    ELSE RoundDiv(Abs(num) * 100, den)

HundredthsText(h) == NatString(h \div 100) \o "." \o TwoDigits(h % 100)

ToFixed2(num, den) ==
    (IF num < 0 THEN "-" ELSE "") \o HundredthsText(Hundredths(num, den))

\* Number.prototype.toLocaleString() of a natural number below 10^9 (en-US grouping)
ToLocaleString(n) ==
    IF n < 1000 THEN NatString(n)
    ELSE IF n < 1000000 THEN NatString(n \div 1000) \o "," \o ThreeDigits(n % 1000)
    ELSE NatString(n \div 1000000) \o "," \o ThreeDigits((n \div 1000) % 1000)
            \o "," \o ThreeDigits(n % 1000)

-----------------------------------------------------------------------------
(* utils/mockData.ts *)

sectors == <<"Technology", "Finance", "Healthcare", "Energy", "Consumer">>

companies == <<"TechCorp", "GlobalBank", "MediHealth", "PowerGrid", "RetailMax",
               "CloudNet", "InvestPro", "BioPharm", "SolarWave", "ShopEase">>

exchanges == <<"NYSE", "NASDAQ", "LSE", "TSE", "HKEX">>

\* Math.round((Math.random() * 500 + 10) * 100) / 100
GenBasePrice(k) == Round2(k * 500 + Dollars(10))

\* Math.round((basePrice + (Math.random() - 0.5) * 20) * 100) / 100
GenOpenPrice(base, k) == Round2(base + (k - RandomSteps \div 2) * 20)

\* Math.round((basePrice + Math.random() * 15) * 100) / 100
\* (variant: the offset subtracted instead of added)
GenDayHighBelow(base, k) == Round2(base - k * 15)
GenDayHigh(base, k) == Round2(base + k * 15)

\* Math.round((basePrice - Math.random() * 15) * 100) / 100
GenDayLow(base, k) == Round2(base - k * 15)

\* Math.floor(Math.random() * 10000000) + 100000
GenVolume(k) == RandomInt(k, 10000000) + 100000

\* Math.floor(Math.random() * 1000000000) + 10000000
GenMarketCap(k) == RandomInt(k, 1000000000) + 10000000

\* One iteration of the loop, for the loop index i and the six draws d
MakeStock(i, d) ==
    LET company == companies[(i % Len(companies)) + 1]
        basePrice == GenBasePrice(d.base)
    IN  [ id        |-> i + 1,
          symbol    |-> ToUpperCase(Substring0(company, 3)) \o NatString(i),
          company   |-> company \o " Inc.",
          sector    |-> sectors[(i % Len(sectors)) + 1],
          exchange  |-> exchanges[(i % Len(exchanges)) + 1],
          price     |-> basePrice,
          openPrice |-> GenOpenPrice(basePrice, d.open),
          dayHigh   |-> GenDayHigh(basePrice, d.high),
          dayLow    |-> GenDayLow(basePrice, d.low),
          volume    |-> GenVolume(d.vol),
          marketCap |-> GenMarketCap(d.cap) ]

\* generateMockData(), for the draws of each iteration
generateMockData(draws) == [i \in 1..LIST_ITEM_COUNT |-> MakeStock(i - 1, draws[i])]

\* The draws the generator is run on, one field at a time
GenDrawSpace ==
    [ base : {0, 5000, 9999}, open : {0, 9999}, high : {0, 1, 9999},
      low : {0, 1, 9999}, vol : {0}, cap : {9999} ]

\* The outcomes of one iteration that the running application starts from
GenOutcomes ==
    { [base |-> 0,    open |-> 5005, high |-> 0,    low |-> 0, vol |-> 0,    cap |-> 9999],
      [base |-> 9999, open |-> 0,    high |-> 9999, low |-> 1, vol |-> 9999, cap |-> 0] }

-----------------------------------------------------------------------------
(* components/StockItem.tsx *)

\* The glyphs of the source are written as words: the up and down triangles
\* as "up" and "down", the filled and hollow stars as "star" and "hollow-star".

\* priceChange / openPrice * 100, shown with toFixed(2)
ChangePercentText(priceChange, openPrice) ==
    IF openPrice = 0
    THEN (IF priceChange > 0 THEN "Infinity"
          ELSE IF priceChange < 0 THEN "-Infinity" ELSE "NaN")
    ELSE IF openPrice > 0 THEN ToFixed2(priceChange * 100, openPrice)
    ELSE ToFixed2(-(priceChange * 100), -openPrice)

\* priceChange >= 0  (variant: > 0)
IsPositiveStrict(priceChange) == priceChange > 0
IsPositive(priceChange) == priceChange >= 0

\* formatVolume  (variant: > in place of >= at both thresholds)
formatVolumeAbove(vol) ==
    IF vol > 1000000 THEN ToFixed2(vol, 1000000) \o "M"
    ELSE IF vol > 1000 THEN ToFixed2(vol, 1000) \o "K"
    ELSE NatString(vol)
formatVolume(vol) ==
    IF vol >= 1000000 THEN ToFixed2(vol, 1000000) \o "M"
    ELSE IF vol >= 1000 THEN ToFixed2(vol, 1000) \o "K"
    ELSE NatString(vol)

formatMarketCap(cap) ==
    IF cap >= 1000000000 THEN "$" \o ToFixed2(cap, 1000000000) \o "B"
    ELSE IF cap >= 1000000 THEN "$" \o ToFixed2(cap, 1000000) \o "M"
    ELSE "$" \o ToLocaleString(cap)

\* The watchlist button's onClick, as the render that creates it closes over
\* `watchlisted` and `symbol`
\* (variant: setWatchlisted(true))
WatchlistClickAlwaysOn(watchlisted, symbol) ==
    [ setWatchlisted |-> TRUE, log |-> "Watchlist toggled for " \o symbol ]
WatchlistClick(watchlisted, symbol) ==
    [ setWatchlisted |-> ~watchlisted, log |-> "Watchlist toggled for " \o symbol ]

\* The trade button's onClick, closing over `symbol` and `price`
TradeClick(symbol, price) ==
    [ alert |-> "Trade executed for " \o symbol \o "\nPrice: $" \o ToFixed2(price, RandomSteps) ]

\* One render of StockItem: what the row shows
RenderStockItem(props, watchlisted) ==
    LET priceChange == props.price - props.openPrice
        isPositive == IsPositive(priceChange)
    IN  [ symbol         |-> props.symbol,
          company        |-> props.company,
          sector         |-> props.sector,
          exchange       |-> props.exchange,
          currentPrice   |-> "$" \o ToFixed2(props.price, RandomSteps),
          changeClass    |-> IF isPositive THEN "positive" ELSE "negative",
          changeArrow    |-> IF isPositive THEN "up" ELSE "down",
          changeAmount   |-> "$" \o ToFixed2(Abs(priceChange), RandomSteps),
          changePercent  |-> ChangePercentText(priceChange, props.openPrice) \o "%",
          open           |-> "$" \o ToFixed2(props.openPrice, RandomSteps),
          high           |-> "$" \o ToFixed2(props.dayHigh, RandomSteps),
          low            |-> "$" \o ToFixed2(props.dayLow, RandomSteps),
          volume         |-> formatVolume(props.volume),
          marketCap      |-> formatMarketCap(props.marketCap),
          watchlistClass |-> IF watchlisted THEN "active" ELSE "",
          watchlistLabel |-> (IF watchlisted THEN "star" ELSE "hollow-star") \o " Watchlist" ]

\* One render of StockItem: the values its two click handlers close over
Closure(props, watchlisted) ==
    [ watchlisted |-> watchlisted, symbol |-> props.symbol, price |-> props.price ]

-----------------------------------------------------------------------------
(* App: the list and the timer *)

\* key={stock.id}
\* (variant: key={stock.price})
KeyByPrice(stock) == stock.price
Key(stock) == stock.id

\* A StockItem instance: its last props, its state and the handlers of its
\* last render
Instance(props, watchlisted) ==
    [ props |-> props, watchlisted |-> watchlisted,
      closure |-> Closure(props, watchlisted) ]

\* What a mounted instance shows: the output of its last render
View(inst) == RenderStockItem(inst.props, inst.watchlisted)

\* App's render of the list: an instance under an old key keeps its state and
\* renders again with the new props; a new key mounts with useState(false)
RenderList(oldRows, list) ==
    [ k \in { Key(list[i]) : i \in 1..Len(list) } |->
        LET props == list[CHOOSE i \in 1..Len(list) : Key(list[i]) = k]
        IN  Instance(props, IF k \in DOMAIN oldRows THEN oldRows[k].watchlisted ELSE FALSE) ]

PriceFloorDollars == 1

\* (Math.random() - 0.5) * 5
PriceChange(k) == (k - RandomSteps \div 2) * 5

\* Math.max(1, stock.price + change)
\* (variant: without the floor)
NewPriceNoFloor(price, k) == price + PriceChange(k)
NewPrice(price, k) == Max(Dollars(PriceFloorDollars), price + PriceChange(k))

\* The callback of prevStocks.map, for the draw k
\* (variant: openPrice overwritten with the previous price)
UpdateStockAndOpen(stock, k) ==
    LET newPrice == NewPrice(stock.price, k)
    IN  [stock EXCEPT !.openPrice = stock.price,
                      !.price = Round2(newPrice),
                      !.dayHigh = Max(stock.dayHigh, newPrice),
                      !.dayLow = Min(stock.dayLow, newPrice)]
\* (variant: the day's range follows the stored, rounded price)
UpdateStockRounded(stock, k) ==
    LET newPrice == NewPrice(stock.price, k)
    IN  [stock EXCEPT !.price = Round2(newPrice),
                      !.dayHigh = Max(stock.dayHigh, Round2(newPrice)),
                      !.dayLow = Min(stock.dayLow, Round2(newPrice))]
\* (variant: the day's range is set to the new price)
UpdateStockNoMax(stock, k) ==
    LET newPrice == NewPrice(stock.price, k)
    IN  [stock EXCEPT !.price = Round2(newPrice),
                      !.dayHigh = newPrice,
                      !.dayLow = newPrice]
UpdateStock(stock, k) ==
    LET newPrice == NewPrice(stock.price, k)
    IN  [stock EXCEPT !.price = Round2(newPrice),
                      !.dayHigh = Max(stock.dayHigh, newPrice),
                      !.dayLow = Min(stock.dayLow, newPrice)]

\* The draws of Math.random() the timer callback is run on: over the long run
\* of the feed, and while the rows are being clicked
TickDraws == {0, 5012}

UiTickDraws == {5012}

-----------------------------------------------------------------------------
(* components/FPSCounter.tsx: the render *)

getBackgroundColor(f) ==
    IF f < 20 THEN "#ef4444" ELSE IF f < 50 THEN "#eab308" ELSE "#22c55e"

getPathColor(f) ==
    IF f < 20 THEN "#dc2626" ELSE IF f < 50 THEN "#ca8a04" ELSE "#16a34a"

\* (the check mark, warning sign and cross in front of the words are left out)
\* (variant: fps > 50 for the top tier)
getStatusTextAbove50(f) ==
    IF f > 50 THEN "Optimal" ELSE IF f >= 20 THEN "Reduced" ELSE "Poor"
getStatusText(f) ==
    IF f >= 50 THEN "Optimal" ELSE IF f >= 20 THEN "Reduced" ELSE "Poor"

RenderFPSCounter(f) ==
    [ backgroundColor |-> getBackgroundColor(f),
      pathColor       |-> getPathColor(f),
      value           |-> f,
      number          |-> NatString(f),
      status          |-> getStatusText(f) ]

InitialFps == 60

SampleWindowMs == 1000

\* Math.round((frameCountRef.current * 1000) / elapsed)
CurrentFPS(frameCount, elapsed) == RoundDiv(frameCount * 1000, elapsed)

\* The refs after the first render at clock time t, and after the effect has
\* requested the first frame: frameCountRef, lastTimeRef, animationFrameRef,
\* with the clock (`now`), the requests the browser still holds (`pending`)
\* and the handle the next request will get
FrameMounted(t) ==
    [ mounted |-> TRUE, frameCount |-> 0, lastTime |-> t, now |-> t,
      animationFrame |-> 1, pending |-> {1}, nextHandle |-> 2 ]

\* cancelAnimationFrame(handle)
CancelAnimationFrame(pending, handle) == pending \ {handle}

\* The effect's cleanup
\* (variant: the request is left with the browser)
FpsCleanupNoCancel(f) == [f EXCEPT !.mounted = FALSE]
FpsCleanup(f) ==
    [f EXCEPT !.mounted = FALSE,
              !.pending = IF f.animationFrame # 0
                          THEN CancelAnimationFrame(f.pending, f.animationFrame)
                          ELSE f.pending]

\* measureFPS, run by the browser for the request h at clock time t: the
\* refs, the requests and the fps figure it leaves
\* (variant: the figure is recomputed on every frame)
MeasureEveryFrame(f, oldFps, h, t) ==
    LET frameCount == f.frameCount + 1
        elapsed == t - f.lastTime
    IN  [ fps   |-> CurrentFPS(frameCount, elapsed),
          frame |-> [f EXCEPT !.frameCount = 0, !.lastTime = t, !.now = t,
                              !.animationFrame = f.nextHandle,
                              !.pending = (f.pending \ {h}) \cup {f.nextHandle},
                              !.nextHandle = f.nextHandle + 1] ]
Measure(f, oldFps, h, t) ==
    LET frameCount == f.frameCount + 1
        elapsed == t - f.lastTime
        recompute == elapsed >= SampleWindowMs
    IN  [ fps   |-> IF recompute THEN CurrentFPS(frameCount, elapsed) ELSE oldFps,
          frame |-> [f EXCEPT !.frameCount = IF recompute THEN 0 ELSE frameCount,
                              !.lastTime = IF recompute THEN t ELSE f.lastTime,
                              !.now = t,
                              !.animationFrame = f.nextHandle,
                              !.pending = (f.pending \ {h}) \cup {f.nextHandle},
                              !.nextHandle = f.nextHandle + 1] ]

\* The times between one frame and the next, in ms
FrameGaps == {250, 400, 600}

-----------------------------------------------------------------------------
(* States *)

NoOutput == [kind |-> "none", text |-> ""]

NoHistory == [id \in 1..LIST_ITEM_COUNT |-> [before |-> <<>>, lastSet |-> FALSE]]

\* The frame-rate indicator as mounted: useState(60) and its first render
FpsMounted ==
    /\ fps = InitialFps
    /\ fpsView = <<RenderFPSCounter(InitialFps)>>
    /\ frame = FrameMounted(0)

\* The frame-rate indicator with some fps figure, before it renders
InitFps ==
    /\ phase = "module"
    /\ stocks = <<>>
    /\ ticks = 0
    /\ rows = <<>>
    /\ hist = NoHistory
    /\ output = NoOutput
    /\ fps \in 0..MaxFps
    /\ fpsView = <<>>
    /\ timer = "none"
    /\ frame = FrameMounted(0)

\* The props the row renderer is run on (amounts in units, whole cents)
RenderPrices == { Dollars(110), Dollars(100), Dollars(250) - CentUnits, Dollars(250),
                  Dollars(1), Dollars(100) + CentUnits }

RenderOpenPrices == { Dollars(100), Dollars(250), Dollars(110), CentUnits, 0 }

RenderVolumes == { 0, 500, 999, 1000, 1500, 999999, 1000000, 2500000, 10099000,
                   999999999, 1000000000, 2000000000 }

RenderMarketCaps == { 0, 999, 1000, 5000, 999999, 1000000, 10000000, 999999999,
                      1000000000, 1009900000, 1500000000 }

RenderProps(price, openPrice, volume, marketCap) ==
    [ id |-> 1, symbol |-> "TEC0", company |-> "TechCorp Inc.",
      sector |-> "Technology", exchange |-> "NYSE",
      price |-> price, openPrice |-> openPrice, dayHigh |-> price, dayLow |-> price,
      volume |-> volume, marketCap |-> marketCap ]

\* One record with some props, about to be rendered for the first time
InitRender ==
    /\ phase = "loaded"
    /\ \E p \in RenderPrices, o \in RenderOpenPrices, v \in RenderVolumes,
          c \in RenderMarketCaps : stocks = <<RenderProps(p, o, v, c)>>
    /\ ticks = 0
    /\ rows = <<>>
    /\ hist = NoHistory
    /\ output = NoOutput
    /\ timer = "none"
    /\ FpsMounted

\* The module is being loaded: generateMockData() has an empty array
InitModule ==
    /\ phase = "module"
    /\ stocks = <<>>
    /\ ticks = 0
    /\ rows = <<>>
    /\ hist = NoHistory
    /\ output = NoOutput
    /\ timer = "none"
    /\ FpsMounted

\* The application as mounted: initialStocks generated, the list rendered once
InitRunning ==
    /\ phase = "mounted"
    /\ stocks \in { generateMockData(d) : d \in [1..LIST_ITEM_COUNT -> GenOutcomes] }
    /\ ticks = 0
    /\ rows = RenderList(<<>>, stocks)
    /\ hist = NoHistory
    /\ output = NoOutput
    /\ timer = "active"
    /\ FpsMounted

-----------------------------------------------------------------------------
(* Steps *)

\* One iteration of generateMockData's loop
GenPush ==
    /\ phase = "module"
    /\ Len(stocks) < LIST_ITEM_COUNT
    /\ \E d \in GenDrawSpace : stocks' = Append(stocks, MakeStock(Len(stocks), d))
    /\ UNCHANGED <<phase, ticks, rows, hist, output, fps, fpsView, timer, frame>>

\* The loop ends and generateMockData returns: initialStocks is set
GenReturn ==
    /\ phase = "module"
    /\ ~(Len(stocks) < LIST_ITEM_COUNT)
    /\ phase' = "loaded"
    /\ UNCHANGED <<stocks, ticks, rows, hist, output, fps, fpsView, timer, frame>>

\* App's first render, useState(initialStocks) and the list, and its effect:
\* setInterval
MountApp ==
    /\ phase = "loaded"
    /\ phase' = "mounted"
    /\ rows' = RenderList(<<>>, stocks)
    /\ timer' = "active"
    /\ UNCHANGED <<stocks, ticks, hist, output, fps, fpsView, frame>>

\* The timer callback: setStocks(prevStocks => prevStocks.map(...)), and the
\* render of App and of every row that the new state causes.  At most `limit`
\* callbacks run, each record's draw being one of `draws`.
priceUpdateInterval(limit, draws) ==
    /\ timer = "active"
    /\ ticks < limit
    /\ \E draw \in [1..Len(stocks) -> draws] :
          stocks' = [i \in 1..Len(stocks) |-> UpdateStock(stocks[i], draw[i])]
    /\ rows' = RenderList(rows, stocks')
    /\ ticks' = ticks + 1
    /\ UNCHANGED <<phase, hist, output, fps, fpsView, timer, frame>>

\* The last two elements of a sequence
LastTwo(s) == IF Len(s) <= 2 THEN s ELSE SubSeq(s, Len(s) - 1, Len(s))

\* A click on the watchlist button of the i-th row: the handler of the row's
\* last render runs, and the row renders again with its new state
ToggleWatchlist(i) ==
    /\ phase = "mounted"
    /\ i \in 1..Len(stocks)
    /\ Key(stocks[i]) \in DOMAIN rows
    /\ LET k == Key(stocks[i])
           click == WatchlistClick(rows[k].closure.watchlisted, rows[k].closure.symbol)
       IN  /\ rows' = [rows EXCEPT ![k] = Instance(@.props, click.setWatchlisted)]
           /\ output' = [kind |-> "log", text |-> click.log]
           /\ hist' = [hist EXCEPT ![stocks[i].id] =
                         [ before  |-> LastTwo(Append(@.before, rows[k].watchlisted)),
                           lastSet |-> click.setWatchlisted ]]
    /\ UNCHANGED <<phase, stocks, ticks, fps, fpsView, timer, frame>>

\* A click on the trade button of the i-th row
\* (variant: the trade also adds to the record's volume)
TradeAndFill(i) ==
    /\ phase = "mounted"
    /\ i \in 1..Len(stocks)
    /\ Key(stocks[i]) \in DOMAIN rows
    /\ LET c == rows[Key(stocks[i])].closure
       IN  output' = [kind |-> "alert", text |-> TradeClick(c.symbol, c.price).alert]
    /\ stocks' = [stocks EXCEPT ![i].volume = @ + 1]
    /\ rows' = RenderList(rows, stocks')
    /\ UNCHANGED <<phase, ticks, hist, fps, fpsView, timer, frame>>
Trade(i) ==
    /\ phase = "mounted"
    /\ i \in 1..Len(stocks)
    /\ Key(stocks[i]) \in DOMAIN rows
    /\ LET c == rows[Key(stocks[i])].closure
       IN  output' = [kind |-> "alert", text |-> TradeClick(c.symbol, c.price).alert]
    /\ UNCHANGED <<phase, stocks, ticks, rows, hist, fps, fpsView, timer, frame>>

\* A render of FPSCounter
RenderFps ==
    /\ fpsView' = <<RenderFPSCounter(fps)>>
    /\ fpsView' # fpsView
    /\ UNCHANGED <<phase, stocks, ticks, rows, hist, output, fps, timer, frame>>

\* A frame: the browser runs measureFPS for a request it holds, dt ms after
\* the last frame; setFps renders the indicator again (and does nothing once
\* the indicator is unmounted)
measureFPS(dt) ==
    /\ frame.now + dt <= MaxTime
    /\ \E h \in frame.pending :
          LET m == Measure(frame, fps, h, frame.now + dt)
          IN  /\ frame' = m.frame
              /\ fps' = IF frame.mounted THEN m.fps ELSE fps
              /\ fpsView' = IF frame.mounted THEN <<RenderFPSCounter(m.fps)>> ELSE fpsView
    /\ UNCHANGED <<phase, stocks, ticks, rows, hist, output, timer>>

\* The cleanup of App's effect: clearInterval(priceUpdateInterval)
AppCleanup(t) == "cleared"

\* The application is unmounted: the cleanups of App's and of FPSCounter's
\* effects run, and the rows and the indicator are gone
Unmount ==
    /\ phase = "mounted"
    /\ phase' = "unmounted"
    /\ timer' = AppCleanup(timer)
    /\ frame' = FpsCleanup(frame)
    /\ rows' = <<>>
    /\ fpsView' = <<>>
    /\ UNCHANGED <<stocks, ticks, hist, output, fps>>

-----------------------------------------------------------------------------
(* Specifications *)

\* The application in use: the timer and the two buttons of every row
Next ==
    \/ priceUpdateInterval(MaxUiTicks, UiTickDraws)
    \/ \E i \in 1..LIST_ITEM_COUNT : ToggleWatchlist(i)
    \/ \E i \in 1..LIST_ITEM_COUNT : Trade(i)

Spec == InitRunning /\ [][Next]_vars

\* The data feed alone: the timer over a longer run
NextFeed == priceUpdateInterval(MaxTicks, TickDraws)

SpecFeed == InitRunning /\ [][NextFeed]_vars

\* The generator and the first render
NextGen == GenPush \/ GenReturn \/ MountApp

SpecGen == InitModule /\ [][NextGen]_vars

\* The row renderer on its own: the first render of one record
NextRender == MountApp

SpecRender == InitRender /\ [][NextRender]_vars

\* The frame-rate indicator's sampling on its own
NextFrames == \E dt \in FrameGaps : measureFPS(dt)

SpecFrames == InitModule /\ [][NextFrames]_vars

\* The application from mount to unmount: the timer, the frames, the teardown
NextLife ==
    \/ priceUpdateInterval(MaxUiTicks, UiTickDraws)
    \/ \E dt \in FrameGaps : measureFPS(dt)
    \/ Unmount

SpecLife == InitRunning /\ [][NextLife]_vars

\* The frame-rate indicator's render on its own
NextFps == RenderFps

SpecFps == InitFps /\ [][NextFps]_vars

-----------------------------------------------------------------------------
(* Properties *)

Rows == 1..Len(stocks)

Flag(i) == rows[Key(stocks[i])].watchlisted

HighPriceLow(stock) == stock.dayHigh >= stock.price /\ stock.price >= stock.dayLow

\* C1: after any number of timer callbacks, zero included, every record's
\* price is at least 1.00.
C1_PriceFloor == \A i \in Rows : stocks[i].price >= Dollars(1)

\* A record that fell from 10.00 onto the floor
C1_Witness == ticks > 0 /\ \E i \in Rows : stocks[i].price = Dollars(1)

\* C2: after every timer callback every record has dayHigh >= price >= dayLow,
\* with the stored (floored, rounded) price and the stored dayHigh and dayLow.
C2_HighPriceLowAfterTick == ticks > 0 => \A i \in Rows : HighPriceLow(stocks[i])

\* C3: every record generateMockData makes has dayHigh >= price >= dayLow,
\* whatever the random draws.
C3_GeneratedHighLow == \A i \in Rows : HighPriceLow(stocks[i])

\* generateMockData has returned a record with dayHigh = price and one with
\* dayLow < price < dayHigh
C3_Witness ==
    /\ phase = "loaded"
    /\ \E i \in Rows : stocks[i].dayHigh = stocks[i].price
    /\ \E i \in Rows : stocks[i].dayLow < stocks[i].price /\ stocks[i].price < stocks[i].dayHigh

IdsDistinct == \A i, j \in Rows : stocks[i].id = stocks[j].id => i = j

OnlyPricesChange ==
    /\ Len(stocks') = Len(stocks)
    /\ \A i \in Rows :
         /\ stocks'[i].id = stocks[i].id
         /\ stocks'[i].symbol = stocks[i].symbol
         /\ stocks'[i].company = stocks[i].company
         /\ stocks'[i].sector = stocks[i].sector
         /\ stocks'[i].exchange = stocks[i].exchange
         /\ stocks'[i].openPrice = stocks[i].openPrice
         /\ stocks'[i].volume = stocks[i].volume
         /\ stocks'[i].marketCap = stocks[i].marketCap

\* C4: over any sequence of timer callbacks the collection keeps its length
\* and order, the ids stay pairwise distinct, and every record keeps its id,
\* symbol, company, sector, exchange, openPrice, volume and marketCap: a
\* callback changes price, dayHigh and dayLow only.
C4_Frame == [](Len(stocks) = LIST_ITEM_COUNT /\ IdsDistinct) /\ [][OnlyPricesChange]_vars

\* Several callbacks have run and moved a price off its generated day-high
C4_Witness ==
    /\ ticks > 1
    /\ Len(stocks) > 1
    /\ \E i \in Rows : stocks[i].price # stocks[i].dayHigh /\ stocks[i].price # stocks[i].openPrice

\* C5: two toggles of a row's watchlist button bring its flag back to the
\* value it had before the first of them, however timer callbacks and renders
\* fall between the clicks.
C5_TwoToggles ==
    \A i \in Rows :
        Len(hist[stocks[i].id].before) = 2 => Flag(i) = hist[stocks[i].id].before[1]

\* A row toggled twice, with all the timer callbacks run
C5_Witness ==
    /\ ticks = MaxUiTicks
    /\ \E i \in Rows : Len(hist[stocks[i].id].before) = 2 /\ hist[stocks[i].id].before[2]

\* C6: neither button changes the collection: a watchlist toggle and a trade
\* confirmation leave every field of every record as it was, and a trade
\* confirmation leaves every row's watchlist flag as it was.
C6_ActionsFrame ==
    [][ /\ (\E i \in 1..LIST_ITEM_COUNT : ToggleWatchlist(i) \/ Trade(i)) => stocks' = stocks
        /\ (\E i \in 1..LIST_ITEM_COUNT : Trade(i)) =>
               /\ DOMAIN rows' = DOMAIN rows
               /\ \A k \in DOMAIN rows : rows'[k].watchlisted = rows[k].watchlisted ]_vars

\* A trade was confirmed while a row was on the watchlist
C6_Witness == output.kind = "alert" /\ \E i \in Rows : Flag(i)

\* C7: the flag does not depend on the feed: a timer callback changes no
\* row's flag, so the flag of the row of record k is what the last toggle of
\* that row set, and false when it was never toggled.
C7_FlagIndependent ==
    /\ [](phase = "mounted" => \A i \in Rows : Flag(i) = hist[stocks[i].id].lastSet)
    /\ [][ticks' # ticks => \A i \in Rows : rows'[Key(stocks'[i])].watchlisted = Flag(i)]_vars

\* A row is on the watchlist after a timer callback
C7_Witness == ticks > 0 /\ \E i \in Rows : Flag(i) /\ hist[stocks[i].id].lastSet

\* C8: the status is poor below 20, reduced from 20 to 49 and optimal from 50
\* on, and the background colour, the gauge's path colour and the status text
\* are of the same tier.
C8_Tiers ==
    Len(fpsView) > 0 =>
        LET v == fpsView[1]
            tier == <<v.backgroundColor, v.pathColor, v.status>>
        IN  /\ fps < 20 => tier = <<"#ef4444", "#dc2626", "Poor">>
            /\ (fps >= 20 /\ fps < 50) => tier = <<"#eab308", "#ca8a04", "Reduced">>
            /\ fps >= 50 => tier = <<"#22c55e", "#16a34a", "Optimal">>
            /\ fps = 19 => v.status = "Poor"
            /\ fps = 20 => v.status = "Reduced"
            /\ fps = 49 => v.status = "Reduced"
            /\ fps = 50 => v.status = "Optimal"

\* The indicator rendered at the boundary value 50
C8_Witness == Len(fpsView) > 0 /\ fps = 50

(* Reading a shown text back *)

LastChar(s) == CharAt(s, Len(s))

IsDigit(c) == \E d \in 0..9 : CharAt("0123456789", d + 1) = c

DigitValue(c) == CHOOSE d \in 0..9 : CharAt("0123456789", d + 1) = c

RECURSIVE ParseNat(_)
ParseNat(s) ==
    IF Len(s) = 0 THEN 0
    ELSE ParseNat(SubSeq(s, 1, Len(s) - 1)) * 10 + DigitValue(LastChar(s))

\* The letter a shown amount ends with, "" when it ends with a digit
Suffix(s) == IF IsDigit(LastChar(s)) THEN "" ELSE LastChar(s)

\* K from 1e3, M from 1e6, B from 1e9
ThreeTierSuffix(n) ==
    IF n >= 1000000000 THEN "B" ELSE IF n >= 1000000 THEN "M"
    ELSE IF n >= 1000 THEN "K" ELSE ""

\* A shown percentage "-d.dd%" or "d.dd%": its sign and its hundredths
ShownPercent(s) ==
    LET body == SubSeq(s, 1, Len(s) - 1)
        neg == CharAt(body, 1) = "-"
        digits == IF neg THEN SubSeq(body, 2, Len(body)) ELSE body
    IN  [ wellFormed |-> /\ LastChar(s) = "%"
                         /\ Len(digits) >= 4
                         /\ CharAt(digits, Len(digits) - 2) = "."
                         /\ \A j \in (1..Len(digits)) \ {Len(digits) - 2} :
                                IsDigit(CharAt(digits, j)),
          negative   |-> neg,
          hundredths |-> ParseNat(SubSeq(digits, 1, Len(digits) - 3)) * 100
                           + ParseNat(SubSeq(digits, Len(digits) - 1, Len(digits))) ]

FormatExamples(p, v) ==
    /\ p.volume = 2500000 => v.volume = "2.50M"
    /\ p.volume = 500 => v.volume = "500"
    /\ p.marketCap = 1500000000 => v.marketCap = "$1.50B"

\* C9 as stated: both formatters abbreviate with K from 1e3, M from 1e6 and B
\* from 1e9 and with no suffix below 1e3, the market cap after a "$"; 2,500,000
\* shows as "2.50M", 500 as "500" and a market cap of 1,500,000,000 as "$1.50B".
C9_BothThreeTiers ==
    \A k \in DOMAIN rows :
        LET p == rows[k].props
            v == View(rows[k])
        IN  /\ Suffix(v.volume) = ThreeTierSuffix(p.volume)
            /\ Suffix(v.marketCap) = ThreeTierSuffix(p.marketCap)
            /\ CharAt(v.marketCap, 1) = "$"
            /\ FormatExamples(p, v)

\* C9 as the code has it: the volume shows M from 1e6 on (also from 1e9 on: it
\* has no B), K from 1e3 and no suffix below; the market cap shows, after a
\* "$", B from 1e9, M from 1e6 and no suffix below 1e6 (it has no K); the three
\* examples are as stated.
C9_TwoTiersEach ==
    \A k \in DOMAIN rows :
        LET p == rows[k].props
            v == View(rows[k])
        IN  /\ p.volume >= 1000000 => Suffix(v.volume) = "M"
            /\ (p.volume >= 1000 /\ p.volume < 1000000) => Suffix(v.volume) = "K"
            /\ p.volume < 1000 => Suffix(v.volume) = "" /\ ParseNat(v.volume) = p.volume
            /\ CharAt(v.marketCap, 1) = "$"
            /\ p.marketCap >= 1000000000 => Suffix(v.marketCap) = "B"
            /\ (p.marketCap >= 1000000 /\ p.marketCap < 1000000000) => Suffix(v.marketCap) = "M"
            /\ p.marketCap < 1000000 => Suffix(v.marketCap) = ""
            /\ FormatExamples(p, v)

\* A row shows a volume of 2,000,000,000 with M and a market cap of 5,000
\* without a suffix
C9_Witness ==
    \E k \in DOMAIN rows :
        /\ rows[k].props.volume = 2000000000
        /\ rows[k].props.marketCap = 5000
        /\ View(rows[k]).volume = "2000.00M"
        /\ View(rows[k]).marketCap = "$5,000"

\* The shown percentage is (price - openPrice) / openPrice * 100 to the nearest
\* hundredth, for amounts p and o in whole cents
PercentToTwoDecimals(p, o, shown) ==
    /\ shown.wellFormed
    /\ 2 * Abs(shown.hundredths * o - 10000 * Abs(p - o)) <= o
    /\ shown.negative <=> p < o

PercentExample(p, v) ==
    (p.price = Dollars(110) /\ p.openPrice = Dollars(100)) =>
        v.changePercent = "10.00%" /\ v.changeClass = "positive" /\ v.changeArrow = "up"

\* C10 as stated: with openPrice > 0 the row shows the percentage
\* (price - openPrice) / openPrice * 100 to two decimals, and the positive
\* indicator exactly when price >= openPrice, so exactly when the shown
\* percentage is >= 0; price 110 with openPrice 100 shows "10.00%", positive.
C10_PositiveIffShownNonNegative ==
    \A k \in DOMAIN rows :
        LET p == rows[k].props
            v == View(rows[k])
            shown == ShownPercent(v.changePercent)
            value == IF shown.negative THEN -shown.hundredths ELSE shown.hundredths
        IN  p.openPrice > 0 =>
              /\ PercentToTwoDecimals(p.price \div CentUnits, p.openPrice \div CentUnits, shown)
              /\ v.changeClass = "positive" <=> p.price >= p.openPrice
              /\ v.changeClass = "positive" <=> value >= 0
              /\ PercentExample(p, v)

\* C10 as the code has it: with openPrice > 0 the row shows that percentage to
\* two decimals, and the positive indicator exactly when price >= openPrice,
\* which is exactly when the shown percentage has no minus sign: a price less
\* than 0.005 percent under openPrice shows "-0.00%" with the negative
\* indicator.
C10_PositiveIffNoMinus ==
    \A k \in DOMAIN rows :
        LET p == rows[k].props
            v == View(rows[k])
            shown == ShownPercent(v.changePercent)
        IN  p.openPrice > 0 =>
              /\ PercentToTwoDecimals(p.price \div CentUnits, p.openPrice \div CentUnits, shown)
              /\ v.changeClass = "positive" <=> p.price >= p.openPrice
              /\ v.changeArrow = "up" <=> p.price >= p.openPrice
              /\ v.changeClass = "positive" <=> ~shown.negative
              /\ PercentExample(p, v)

\* A row shows 249.99 against an opening price of 250.00
C10_Witness ==
    \E k \in DOMAIN rows :
        /\ rows[k].props.price = Dollars(250) - CentUnits
        /\ rows[k].props.openPrice = Dollars(250)
        /\ View(rows[k]).changePercent = "-0.00%"
        /\ View(rows[k]).changeClass = "negative"

\* A timer callback has just run
TickStep == ticks' # ticks

\* C11 as stated: on each timer callback a record's new dayHigh is
\* max(old dayHigh, p) and its new dayLow is min(old dayLow, p), where p is
\* old price + delta before the floor at 1.00 is applied.
C11_RangeFromPreClamp ==
    [][TickStep =>
        \A i \in Rows : \E k \in TickDraws :
            LET p == stocks[i].price + PriceChange(k)
            IN  /\ stocks'[i].price = Round2(Max(Dollars(1), p))
                /\ stocks'[i].dayHigh = Max(stocks[i].dayHigh, p)
                /\ stocks'[i].dayLow = Min(stocks[i].dayLow, p)]_vars

\* C11 as the code has it: p is max(1.00, old price + delta), the price after
\* the floor at 1.00 is applied and before it is rounded to cents.
C11_RangeFromClamped ==
    [][TickStep =>
        \A i \in Rows : \E k \in TickDraws :
            LET p == Max(Dollars(1), stocks[i].price + PriceChange(k))
            IN  /\ stocks'[i].price = Round2(p)
                /\ stocks'[i].dayHigh = Max(stocks[i].dayHigh, p)
                /\ stocks'[i].dayLow = Min(stocks[i].dayLow, p)]_vars

\* A record that fell onto the floor has its day-low at 1.00, and a record's
\* day-high is off the cent grid
C11_Witness ==
    /\ \E i \in Rows : stocks[i].price = Dollars(1) /\ stocks[i].dayLow = Dollars(1)
    /\ \E i \in Rows : stocks[i].dayHigh % CentUnits # 0

\* C14: over any sequence of timer callbacks a record's dayHigh never
\* decreases and its dayLow never increases.
C14_RangeWidens ==
    [][\A i \in Rows : stocks'[i].dayHigh >= stocks[i].dayHigh
                       /\ stocks'[i].dayLow <= stocks[i].dayLow]_vars

\* After several callbacks a record's price is strictly inside a range that
\* the callbacks have widened at both ends
C14_Witness ==
    /\ ticks > 1
    /\ \E i \in Rows :
         /\ stocks[i].dayLow < stocks[i].price /\ stocks[i].price < stocks[i].dayHigh
         /\ stocks[i].dayHigh % CentUnits # 0
         /\ stocks[i].dayLow < Dollars(10)

\* C12: after teardown neither periodic callback fires again: once the cleanup
\* of App's effect has run no timer callback changes the collection, and once
\* the cleanup of the indicator's effect has run the last frame request is
\* cancelled, so no frame is sampled or requested any more.
C12_Teardown ==
    /\ [](phase = "unmounted" =>
            timer = "cleared" /\ ~frame.mounted /\ frame.pending = {})
    /\ [][ /\ timer = "cleared" => ticks' = ticks /\ stocks' = stocks
           /\ ~frame.mounted => frame' = frame /\ fps' = fps ]_vars

\* Unmounted after a timer callback and some frames, with time and callbacks
\* left in the model for more
C12_Witness ==
    /\ phase = "unmounted"
    /\ ticks > 0 /\ ticks < MaxUiTicks
    /\ frame.nextHandle > 3
    /\ frame.now + SampleWindowMs <= MaxTime

\* A frame callback has just run
FrameStep == frame'.now # frame.now

\* C13: the fps figure is recomputed only on a frame callback at which at
\* least 1000 ms have passed since the last recomputation (or the mount); that
\* callback sets fps to round(frames counted * 1000 / elapsed), sets the frame
\* count to 0 and the reference time to now, so two recomputations are at
\* least 1000 ms apart; every frame callback requests exactly one next frame.
C13_OncePerSecond ==
    [][FrameStep =>
        LET elapsed == frame'.now - frame.lastTime
            counted == frame.frameCount + 1
        IN  /\ IF elapsed >= 1000
               THEN /\ 2 * (fps' * elapsed - counted * 1000) <= elapsed
                    /\ 2 * (fps' * elapsed - counted * 1000) > -elapsed
                    /\ frame'.frameCount = 0
                    /\ frame'.lastTime = frame'.now
               ELSE /\ fps' = fps
                    /\ frame'.frameCount = counted
                    /\ frame'.lastTime = frame.lastTime
            /\ frame'.lastTime # frame.lastTime => frame'.lastTime - frame.lastTime >= 1000
            /\ Cardinality(frame'.pending) = 1
            /\ frame'.pending \cap frame.pending = {}
            /\ frame'.animationFrame \in frame'.pending ]_vars

\* The figure was recomputed twice and a frame has been counted since
C13_Witness ==
    /\ frame.lastTime >= 2 * SampleWindowMs
    /\ frame.frameCount > 0
    /\ fps # InitialFps

====
